---- MODULE Spec2Model ----
(***************************************************************************)
(* Model of collector/client.go of squid-exporter: the cache-manager       *)
(* client (readFromSquid, get, readLines, GetCounters, GetServiceTimes)    *)
(* and its two line decoders (decodeCounterStrings,                        *)
(* decodeServiceTimeStrings).                                              *)
(*                                                                         *)
(* A Go string is modelled as a sequence of one-character strings, so that *)
(* indexing, slicing, trimming and splitting are computed as the code      *)
(* computes them.  A float64 is modelled as a decimal [mant, exp] meaning  *)
(* mant * 10^(-exp), normalised; the bounded lines never carry enough      *)
(* digits for binary rounding to matter.                                   *)
(***************************************************************************)
EXTENDS Integers, Sequences, FiniteSets, TLC

\* ------------------------------------------------------------------------
\* Bounds of the model
\* ------------------------------------------------------------------------

\* longest free text (after the line's start, before its terminator) of a
\* line handed to a direct decoder call
MaxLineLen == 4

\* most terminator-ended lines in the body served to a fetch that runs alone
MaxLines == 3

\* most terminator-ended body lines served, in total, to two concurrent fetches
MaxPairLines == 2

\* ------------------------------------------------------------------------
\* Go's strings package, on sequences of characters
\* ------------------------------------------------------------------------

\* unicode.IsSpace, as far as the modelled alphabet goes
IsSpace(c) == c \in {" ", "\t", "\n", "\r"}

\* strings.Index(s, c) for a one-character c: 0-based, -1 when absent
RECURSIVE IndexFrom(_, _, _)
IndexFrom(s, c, i) ==
    IF i > Len(s) THEN -1
    ELSE IF s[i] = c THEN i - 1
    ELSE IndexFrom(s, c, i + 1)

Index(s, c) == IndexFrom(s, c, 1)

\* the Go slice expressions s[:n] and s[n:]
SliceTo(s, n) == SubSeq(s, 1, n)

SliceFrom(s, n) == SubSeq(s, n + 1, Len(s))

RECURSIVE TrimLeft(_)
TrimLeft(s) ==
    IF s # <<>> /\ IsSpace(Head(s)) THEN TrimLeft(Tail(s)) ELSE s

RECURSIVE TrimRight(_)
TrimRight(s) ==
    IF s # <<>> /\ IsSpace(s[Len(s)]) THEN TrimRight(SubSeq(s, 1, Len(s) - 1)) ELSE s

\* strings.TrimSpace
TrimSpace(s) == TrimRight(TrimLeft(s))

\* strings.Split(s, sep)[0] for a one-character sep: the text before the
\* first sep, or all of s when it holds none (Split never returns an empty
\* slice, so element 0 always exists)
SplitFirst(s, sep) ==
    IF Index(s, sep) < 0 THEN s ELSE SliceTo(s, Index(s, sep))

\* strings.Replace(s, old, new, -1) for a one-character old; new is a string
RECURSIVE Replace(_, _, _)
Replace(s, old, new) ==
    IF s = <<>> THEN <<>>
    ELSE (IF Head(s) = old THEN new ELSE <<Head(s)>>) \o Replace(Tail(s), old, new)

\* strings.HasSuffix
HasSuffix(s, suffix) ==
    /\ Len(s) >= Len(suffix)
    /\ SubSeq(s, Len(s) - Len(suffix) + 1, Len(s)) = suffix

\* ------------------------------------------------------------------------
\* strconv.ParseFloat(s, 64), on the decimal forms the alphabet can spell:
\* digits with at most one '.', at least one digit, nothing else.  (Signs,
\* exponents, hex floats, "inf" and "nan" need characters the modelled
\* lines never hold.)
\* ------------------------------------------------------------------------

DigitVal ==
    [c \in {"0", "1", "2", "3", "4", "5", "6", "7", "8", "9"} |->
        CASE c = "0" -> 0 [] c = "1" -> 1 [] c = "2" -> 2 [] c = "3" -> 3
          [] c = "4" -> 4 [] c = "5" -> 5 [] c = "6" -> 6 [] c = "7" -> 7
          [] c = "8" -> 8 [] c = "9" -> 9]

IsDigit(c) == c \in DOMAIN DigitVal

\* the scanner's state: mant and exp so far, whether a '.' and a digit were seen
RECURSIVE ScanFloat(_, _, _, _, _)
ScanFloat(s, mant, exp, sawDot, sawDigit) ==
    IF s = <<>> THEN [ok |-> sawDigit, mant |-> mant, exp |-> exp]
    ELSE IF IsDigit(Head(s))
        THEN ScanFloat(Tail(s), mant * 10 + DigitVal[Head(s)],
                       IF sawDot THEN exp + 1 ELSE exp, sawDot, TRUE)
    ELSE IF Head(s) = "." /\ ~sawDot
        THEN ScanFloat(Tail(s), mant, exp, TRUE, sawDigit)
    ELSE [ok |-> FALSE, mant |-> 0, exp |-> 0]

\* a float64 has one representation of each value: drop trailing fraction zeros
RECURSIVE Normalise(_, _)
Normalise(mant, exp) ==
    IF exp > 0 /\ mant % 10 = 0 THEN Normalise(mant \div 10, exp - 1)
    ELSE [mant |-> mant, exp |-> exp]

ZeroFloat == [mant |-> 0, exp |-> 0]

ParseFloat(s) ==
    LET r == ScanFloat(s, 0, 0, FALSE, FALSE)
    IN  IF r.ok THEN [ok |-> TRUE, val |-> Normalise(r.mant, r.exp)]
        ELSE [ok |-> FALSE, val |-> ZeroFloat]

\* ------------------------------------------------------------------------
\* types.Counter and errors
\* ------------------------------------------------------------------------

\* the nil error; a non-nil error is its message, a sequence of text pieces
Nil == <<>>

Counter(key, value) == [Key |-> key, Value |-> value]

\* types.Counter{}
ZeroCounter == Counter(<<>>, ZeroFloat)

\* ------------------------------------------------------------------------
\* The decoders
\* ------------------------------------------------------------------------

CounterError(line) == <<"counter - could not parse line: ">> \o line

\* a variant that lets an empty key through
decodeCounterStringsAnyKey(line) ==
    LET equal == Index(line, "=")
        key   == TrimSpace(SliceTo(line, equal))
        value == IF Len(line) > equal THEN TrimSpace(SliceFrom(line, equal + 1)) ELSE <<>>
        num   == ParseFloat(SplitFirst(value, " "))
    IN  IF equal >= 0 /\ num.ok
        THEN [rec |-> Counter(key, num.val), err |-> Nil]
        ELSE [rec |-> ZeroCounter, err |-> CounterError(line)]

decodeCounterStrings(line) ==
    LET equal == Index(line, "=")
        key   == TrimSpace(SliceTo(line, equal))
        value == IF Len(line) > equal THEN TrimSpace(SliceFrom(line, equal + 1)) ELSE <<>>
        token == SplitFirst(value, " ")
        num   == ParseFloat(token)
    IN  IF equal >= 0 /\ Len(key) > 0 /\ num.ok
        THEN [rec |-> Counter(key, num.val), err |-> Nil]
        ELSE [rec |-> ZeroCounter, err |-> CounterError(line)]

ServiceTimeError(line) == <<"service times - could not parse line: ">> \o line

\* a variant that keeps the parentheses of the label
decodeServiceTimeStringsParens(line) ==
    IF HasSuffix(line, <<":", "\n">>) THEN [rec |-> ZeroCounter, err |-> Nil]
    ELSE
    LET equal    == Index(line, ":")
        key0     == TrimSpace(SliceTo(line, equal))
        value0   == IF Len(line) > equal THEN TrimSpace(SliceFrom(line, equal + 1)) ELSE <<>>
        key1     == Replace(key0, " ", <<"_">>)
        equalTwo == Index(value0, "%")
        keyTwo   == TrimSpace(SliceTo(value0, equalTwo))
        split    == equalTwo >= 0 /\ Len(keyTwo) > 0
        value    == IF split
                    THEN SplitFirst(TrimSpace(SliceFrom(value0, equalTwo + 1)), " ")
                    ELSE value0
        key      == IF split THEN key1 \o <<"_">> \o keyTwo ELSE key1
        num      == ParseFloat(value)
    IN  IF equal >= 0 /\ Len(key0) > 0 /\ num.ok
        THEN [rec |-> Counter(key, num.val), err |-> Nil]
        ELSE [rec |-> ZeroCounter, err |-> ServiceTimeError(line)]

decodeServiceTimeStrings(line) ==
    IF HasSuffix(line, <<":", "\n">>) THEN [rec |-> ZeroCounter, err |-> Nil]
    ELSE
    LET equal    == Index(line, ":")
        key0     == TrimSpace(SliceTo(line, equal))
        value0   == IF Len(line) > equal THEN TrimSpace(SliceFrom(line, equal + 1)) ELSE <<>>
        key1     == Replace(Replace(Replace(key0, " ", <<"_">>), "(", <<>>), ")", <<>>)
        equalTwo == Index(value0, "%")
        keyTwo   == TrimSpace(SliceTo(value0, equalTwo))
        split    == equalTwo >= 0 /\ Len(keyTwo) > 0
        value    == IF split /\ Len(value0) > equalTwo
                    THEN SplitFirst(TrimSpace(SliceFrom(value0, equalTwo + 1)), " ")
                    ELSE value0
        key      == IF split THEN key1 \o <<"_">> \o keyTwo ELSE key1
        num      == ParseFloat(value)
    IN  IF equal >= 0 /\ Len(key0) > 0 /\ num.ok
        THEN [rec |-> Counter(key, num.val), err |-> Nil]
        ELSE [rec |-> ZeroCounter, err |-> ServiceTimeError(line)]

\* ------------------------------------------------------------------------
\* The client, the network and the state of the calls
\* ------------------------------------------------------------------------

VARIABLES
    cfg,        \* the CacheObjectClient shared by every call
    pc,         \* per fetch: where the call GetCounters / GetServiceTimes stands
    conn,       \* per fetch: the connection connect returned (0: none)
    conns,      \* the connections dialled so far: the bytes written to each
    resp,       \* per fetch: the response the peer served on its connection
    reader,     \* per fetch: the bufio.Reader over the response body
    lines,      \* per fetch: the channel made by the call (0: none)
    chans,      \* the channels made so far
    gos,        \* the readLines goroutines started so far
    cur,        \* per fetch: the loop variable line
    records,    \* per fetch: the local counters / serviceTimes
    result,     \* per fetch: what the call returned
    logs,       \* the standard logger's output, by the call it came from
    delivered,  \* per fetch: the lines the range loop has received (history)
    dcall       \* a direct call of a decoder: its argument and its result

vars == <<cfg, pc, conn, conns, resp, reader, lines, chans, gos, cur,
          records, result, logs, delivered, dcall>>

fetchVars == <<cfg, pc, conn, conns, resp, reader, lines, chans, gos, cur,
               records, result, logs, delivered>>

\* the two fetch operations, named by the endpoint each requests
Fetches == {"counters", "service_times"}

\* strconv-style decimal rendering (the %d verb of fmt)
DigitChar == <<"0", "1", "2", "3", "4", "5", "6", "7", "8", "9">>

RECURSIVE Itoa(_)
Itoa(n) ==
    IF n < 10 THEN DigitChar[n + 1]
    ELSE Itoa(n \div 10) \o DigitChar[(n % 10) + 1]

\* base64.StdEncoding.EncodeToString, tabulated on the credentials modelled
Base64 == [s \in {"u:p"} |-> "dTpw"]

buildBasicAuthString(login, password) ==
    IF login = "" THEN "" ELSE Base64[login \o ":" \o password]

NewCacheObjectClient(hostname, port, login, password, withProxyProtocal) ==
    [hostname          |-> hostname,
     port              |-> port,
     basicAuthString   |-> buildBasicAuthString(login, password),
     headers           |-> <<>>,
     withProxyProtocal |-> withProxyProtocal]

\* the clients the exporter may be started with
Clients ==
    { NewCacheObjectClient("localhost", port, login, "p", proxy) :
        port \in {3128, 8080}, login \in {"", "u"}, proxy \in BOOLEAN }

\* a variant with the two ports in each other's place
ProxyHeaderSwapped(port) ==
    <<"PROXY", "TCP4", "127.0.0.1", "127.0.0.1", Itoa(port), Itoa(80), "\r\n">>

\* proxyproto.Header{Version 1, PROXY, TCPv4, 127.0.0.1:80 -> 127.0.0.1:port}
\* in the version-1 text format Header.WriteTo writes
ProxyHeader(port) ==
    <<"PROXY", "TCP4", "127.0.0.1", "127.0.0.1", Itoa(80), Itoa(port), "\r\n">>

requestProtocol(path) == "GET cache_object://localhost/" \o path \o " HTTP/1.0"

\* strings.Join(elems, sep)
RECURSIVE Join(_, _)
Join(elems, sep) ==
    IF Len(elems) = 0 THEN <<>>
    ELSE IF Len(elems) = 1 THEN <<elems[1]>>
    ELSE <<elems[1], sep>> \o Join(Tail(elems), sep)

\* the request text get writes
Request(path, basicAuthString) ==
    LET rBody == <<requestProtocol(path), "Host: localhost", "User-Agent: squidclient/3.5.12">>
                 \o (IF basicAuthString # ""
                     THEN <<"Proxy-Authorization: Basic " \o basicAuthString>>
                     ELSE <<>>)
                 \o <<"Accept: */*", "\r\n">>
    IN  Join(rBody, "\r\n")

StatusOK == 200

\* ------------------------------------------------------------------------
\* What the peer may serve
\* ------------------------------------------------------------------------

\* report lines, each ending with its terminator
Segments(f) ==
    IF f = "counters"
    THEN { <<"a", "=", "1", "\n">>,                       \* a counter
           <<"b", " ", "=", " ", "2", " ", "s", "\n">>,   \* a counter with an annotation
           <<"b", "\n">> }                                \* not a counter
    ELSE { <<"h", ":", "\n">>,                            \* a section header
           <<"h", ":", "5", "%", " ", "1", "\n">>,        \* a percentile metric
           <<"h", ":", "%", "\n">> }                      \* not a metric

\* what may follow the last terminator
Tails(f) ==
    IF f = "counters" THEN { <<>>, <<"c", "=", "3">> }
    ELSE { <<>>, <<"d", ":", "4">> }

\* how the body stream ends: io.EOF, or another read error
Ends == {"EOF", "ERR"}

SeqsUpTo(S, n) == UNION { [1..k -> S] : k \in 0..n }

RECURSIVE Flatten(_)
Flatten(ls) == IF ls = <<>> THEN <<>> ELSE Head(ls) \o Flatten(Tail(ls))

NoResponse == [framed |-> FALSE, status |-> 0, lines |-> <<>>, tail |-> <<>>, end |-> "EOF"]

\* responses to a request for endpoint f with at most n body lines
Responses(f, n) ==
    { [framed |-> TRUE, status |-> StatusOK, lines |-> ls, tail |-> t, end |-> e] :
        ls \in SeqsUpTo(Segments(f), n), t \in Tails(f), e \in Ends }
    \cup { [framed |-> TRUE, status |-> 404, lines |-> <<>>, tail |-> <<>>, end |-> "EOF"] }

\* body lines served so far
Served == Len(resp["counters"].lines) + Len(resp["service_times"].lines)

\* no other call of the client is under way or has been made
Alone(f) == \A h \in Fetches \ {f} : pc[h] = "idle"

\* ------------------------------------------------------------------------
\* Results, readers, channels and goroutines
\* ------------------------------------------------------------------------

NoResult == [returned |-> FALSE, records |-> <<>>, err |-> Nil]

Returned(recs, err) == [returned |-> TRUE, records |-> recs, err |-> err]

\* fmt.Errorf("error getting counters: %v", err) and its service-times twin
WrapError(f, err) ==
    (IF f = "counters" THEN <<"error getting counters: ">>
     ELSE <<"error getting service times: ">>) \o err

DialError == <<"dial tcp: connection refused">>

WriteError == <<"write tcp: broken pipe">>

FramingError == <<"malformed HTTP response">>

\* a variant that leaves the code out of the message
StatusErrorNoCode(code) == <<"Non success code while fetching metrics">>

StatusError(code) ==
    <<"Non success code ", Itoa(code), " while fetching metrics">>

NoReader == [buf |-> <<>>, end |-> "EOF"]

\* bufio.NewReader(r.Body)
NewReader(r) == [buf |-> Flatten(r.lines) \o r.tail, end |-> r.end]

\* reader.ReadString('\n'): the data up to and including the delimiter, or
\* the data read before the error together with the error
\* a variant that hands an unterminated last line over as a line
ReadStringKeepTail(r) ==
    LET i == Index(r.buf, "\n")
    IN  IF i >= 0
        THEN [line |-> SliceTo(r.buf, i + 1), err |-> "nil",
              rest |-> [r EXCEPT !.buf = SliceFrom(r.buf, i + 1)]]
        ELSE [line |-> r.buf, err |-> IF r.buf # <<>> THEN "nil" ELSE r.end,
              rest |-> [r EXCEPT !.buf = <<>>]]

ReadString(r) ==
    LET i == Index(r.buf, "\n")
    IN  IF i >= 0
        THEN [line |-> SliceTo(r.buf, i + 1), err |-> "nil",
              rest |-> [r EXCEPT !.buf = SliceFrom(r.buf, i + 1)]]
        ELSE [line |-> r.buf, err |-> r.end, rest |-> [r EXCEPT !.buf = <<>>]]

\* a variant with room for one line: make(chan string, 1)
ChanCapOne == 0 + 1

\* make(chan string): the capacity of the channel
ChanCap == 0

\* make(chan string), with the history of its use
NewChan == [buf |-> <<>>, closed |-> FALSE, sends |-> 0, closes |-> 0, lateSends |-> 0]

\* go readLines(reader, lines)
NewGoroutine(f, ch) ==
    [reader |-> f, lines |-> ch, pc |-> "read", line |-> <<>>, nread |-> 0]

NoCall == [fn |-> "none", line |-> <<>>, out |-> [rec |-> ZeroCounter, err |-> Nil]]

Init ==
    /\ cfg \in Clients
    /\ pc = [f \in Fetches |-> "idle"]
    /\ conn = [f \in Fetches |-> 0]
    /\ conns = <<>>
    /\ resp = [f \in Fetches |-> NoResponse]
    /\ reader = [f \in Fetches |-> NoReader]
    /\ lines = [f \in Fetches |-> 0]
    /\ chans = <<>>
    /\ gos = <<>>
    /\ cur = [f \in Fetches |-> <<>>]
    /\ records = [f \in Fetches |-> <<>>]
    /\ result = [f \in Fetches |-> NoResult]
    /\ logs = [f \in Fetches |-> <<>>]
    /\ delivered = [f \in Fetches |-> <<>>]
    /\ dcall = NoCall

\* one client, with credentials and the proxy header on
InitOneClient == Init /\ cfg = NewCacheObjectClient("localhost", 3128, "u", "p", TRUE)

\* ------------------------------------------------------------------------
\* readFromSquid
\* ------------------------------------------------------------------------

\* a variant that keeps one connection and hands it to every call
connectPooled(cs) == 1

\* net.Dial hands out a connection of its own to every call
connect(cs) == Len(cs) + 1

\* readFromSquid after a successful dial: the header first when asked for
AfterConnect(c) == IF c.withProxyProtocal THEN "header" ELSE "get"

\* the call returns (nil, error) to its caller
Fail(f, err) ==
    /\ result' = [result EXCEPT ![f] = Returned(<<>>, WrapError(f, err))]
    /\ pc' = [pc EXCEPT ![f] = "done"]

\* conn, err := connect(hostname, port)
Connect(f) ==
    /\ pc[f] = "idle"
    /\ \E ok \in BOOLEAN :
        IF ok
        THEN /\ conn' = [conn EXCEPT ![f] = connect(conns)]
             /\ conns' = IF connect(conns) > Len(conns) THEN Append(conns, <<>>) ELSE conns
             /\ pc' = [pc EXCEPT ![f] = AfterConnect(cfg)]
             /\ UNCHANGED result
        ELSE /\ Fail(f, DialError)
             /\ UNCHANGED <<conn, conns>>
    /\ UNCHANGED <<cfg, resp, reader, lines, chans, gos, cur, records, logs, delivered, dcall>>

\* header.WriteTo(conn): all of the header, or an error after part of it
WriteProxyHeader(f) ==
    /\ pc[f] = "header"
    /\ \E n \in 0..Len(ProxyHeader(cfg.port)) :
        /\ conns' = [conns EXCEPT ![conn[f]] = @ \o SliceTo(ProxyHeader(cfg.port), n)]
        /\ IF n = Len(ProxyHeader(cfg.port))
           THEN pc' = [pc EXCEPT ![f] = "get"] /\ UNCHANGED result
           ELSE Fail(f, WriteError)
    /\ UNCHANGED <<cfg, conn, resp, reader, lines, chans, gos, cur, records, logs, delivered, dcall>>

\* r, err := get(conn, endpoint, basicAuthString), the status check and the
\* return of readFromSquid.  The peer answers with an unparsable response,
\* a status other than 200, or a body.
Get(f, room) ==
    /\ pc[f] = "get"
    /\ conns' = [conns EXCEPT ![conn[f]] = @ \o Request(f, cfg.basicAuthString)]
    /\ \E r \in Responses(f, room) \cup {NoResponse} :
        /\ resp' = [resp EXCEPT ![f] = r]
        /\ IF ~r.framed THEN Fail(f, FramingError) /\ UNCHANGED reader
           ELSE IF r.status # StatusOK THEN Fail(f, StatusError(r.status)) /\ UNCHANGED reader
           ELSE /\ reader' = [reader EXCEPT ![f] = NewReader(r)]
                /\ pc' = [pc EXCEPT ![f] = "start"]
                /\ UNCHANGED result
    /\ UNCHANGED <<cfg, conn, lines, chans, gos, cur, records, logs, delivered, dcall>>

\* ------------------------------------------------------------------------
\* GetCounters / GetServiceTimes after readFromSquid, and readLines
\* ------------------------------------------------------------------------

\* lines := make(chan string); go readLines(reader, lines)
StartProducer(f) ==
    /\ pc[f] = "start"
    /\ chans' = Append(chans, NewChan)
    /\ lines' = [lines EXCEPT ![f] = Len(chans) + 1]
    /\ gos' = Append(gos, NewGoroutine(f, Len(chans) + 1))
    /\ pc' = [pc EXCEPT ![f] = "range"]
    /\ UNCHANGED <<cfg, conn, conns, resp, reader, cur, records, result, logs, delivered, dcall>>

ReadErrorLog == <<"error reading from the bufio.Reader: ", "read error">>

\* a variant that closes the channel only at end-of-stream, and just
\* returns on any other error
AfterReadNoClose(err) == IF err = "nil" THEN "send" ELSE IF err = "EOF" THEN "close" ELSE "done"

\* where readLines goes after ReadString returned err: on to the send, or
\* out of the loop to the close
AfterRead(err) == IF err = "nil" THEN "send" ELSE "close"

\* line, err := reader.ReadString('\n') and the two tests that follow it
ReadLine(g) ==
    /\ gos[g].pc = "read"
    /\ LET r == ReadString(reader[gos[g].reader])
       IN  /\ reader' = [reader EXCEPT ![gos[g].reader] = r.rest]
           /\ gos' = [gos EXCEPT ![g].pc = AfterRead(r.err),
                                 ![g].line = IF AfterRead(r.err) = "send" THEN r.line ELSE <<>>,
                                 ![g].nread = IF AfterRead(r.err) = "send" THEN @ + 1 ELSE @]
           /\ logs' = IF r.err \notin {"nil", "EOF"}
                      THEN [logs EXCEPT ![gos[g].reader] = Append(@, ReadErrorLog)]
                      ELSE logs
    /\ UNCHANGED <<cfg, pc, conn, conns, resp, lines, chans, cur, records, result, delivered, dcall>>

\* the fetch, if any, whose range loop waits to receive from channel c
Receivers(c) == { f \in Fetches : lines[f] = c /\ pc[f] = "range" }

\* lines <- line: into the channel's buffer while it has room; otherwise the
\* send completes only by handing the line to a receiver that waits
Send(g) ==
    /\ gos[g].pc = "send"
    /\ LET c == gos[g].lines
           late == IF chans[c].closed THEN 1 ELSE 0
       IN  IF Len(chans[c].buf) < ChanCap
           THEN /\ chans' = [chans EXCEPT ![c].buf = Append(@, gos[g].line),
                                          ![c].sends = @ + 1,
                                          ![c].lateSends = @ + late]
                /\ UNCHANGED <<pc, cur, delivered>>
           ELSE /\ chans[c].buf = <<>>
                /\ \E f \in Receivers(c) :
                    /\ cur' = [cur EXCEPT ![f] = gos[g].line]
                    /\ delivered' = [delivered EXCEPT ![f] = Append(@, gos[g].line)]
                    /\ pc' = [pc EXCEPT ![f] = "body"]
                /\ chans' = [chans EXCEPT ![c].sends = @ + 1, ![c].lateSends = @ + late]
    /\ gos' = [gos EXCEPT ![g].pc = "read", ![g].line = <<>>]
    /\ UNCHANGED <<cfg, conn, conns, resp, reader, lines, records, result, logs, dcall>>

\* close(lines)
CloseLines(g) ==
    /\ gos[g].pc = "close"
    /\ chans' = [chans EXCEPT ![gos[g].lines].closed = TRUE, ![gos[g].lines].closes = @ + 1]
    /\ gos' = [gos EXCEPT ![g].pc = "done"]
    /\ UNCHANGED <<cfg, pc, conn, conns, resp, reader, lines, cur, records, result, logs, delivered, dcall>>

\* for line := range lines, when no sender is needed: a buffered line is
\* taken, or the channel is closed and drained and the call returns
\* (counters, err), err being the nil that readFromSquid returned
RangeNext(f) ==
    /\ pc[f] = "range"
    /\ LET c == lines[f]
       IN  /\ chans[c].buf # <<>> \/ chans[c].closed
           /\ IF chans[c].buf # <<>>
              THEN /\ cur' = [cur EXCEPT ![f] = Head(chans[c].buf)]
                   /\ delivered' = [delivered EXCEPT ![f] = Append(@, Head(chans[c].buf))]
                   /\ chans' = [chans EXCEPT ![c].buf = Tail(@)]
                   /\ pc' = [pc EXCEPT ![f] = "body"]
                   /\ UNCHANGED result
              ELSE /\ result' = [result EXCEPT ![f] = Returned(records[f], Nil)]
                   /\ pc' = [pc EXCEPT ![f] = "done"]
                   /\ UNCHANGED <<cur, delivered, chans>>
    /\ UNCHANGED <<cfg, conn, conns, resp, reader, lines, gos, records, logs, dcall>>

\* every text ReadString can return from a body
BodyTexts ==
    UNION { Segments(f) \cup Tails(f) : f \in Fetches }

\* the two decoders on those texts, worked out once
DecodedCounter == [l \in BodyTexts |-> decodeCounterStrings(l)]

DecodedServiceTime == [l \in BodyTexts |-> decodeServiceTimeStrings(l)]

\* the decoder each fetch applies to the line it received
Decoder(f, line) ==
    IF f = "counters" THEN DecodedCounter[line] ELSE DecodedServiceTime[line]

\* whether the loop body appends a decoded record
Keeps(f, rec) == f = "counters" \/ rec.Key # <<>>

\* a variant that puts the new record first
Prepended(recs, rec) == <<rec>> \o recs

\* what the loop body leaves in the local slice
Appended(recs, rec) == Append(recs, rec)

\* the body of the range loop
Decode(f) ==
    /\ pc[f] = "body"
    /\ LET out == Decoder(f, cur[f])
       IN  IF out.err # Nil
           THEN logs' = [logs EXCEPT ![f] = Append(@, out.err)] /\ UNCHANGED records
           ELSE /\ records' = [records EXCEPT ![f] =
                                 IF Keeps(f, out.rec) THEN Appended(@, out.rec) ELSE @]
                /\ UNCHANGED logs
    /\ pc' = [pc EXCEPT ![f] = "range"]
    /\ UNCHANGED <<cfg, conn, conns, resp, reader, lines, chans, gos, cur, result, delivered, dcall>>

\* the steps of a call once it has dialled, and of its goroutine
Run ==
    \/ \E f \in Fetches :
        \/ WriteProxyHeader(f)
        \/ StartProducer(f)
        \/ RangeNext(f)
        \/ Decode(f)
    \/ \E g \in 1..Len(gos) :
        \/ ReadLine(g)
        \/ Send(g)
        \/ CloseLines(g)

\* one call of GetCounters or of GetServiceTimes
Next ==
    \/ \E f \in Fetches : Alone(f) /\ Connect(f)
    \/ \E f \in Fetches : Get(f, MaxLines)
    \/ Run

Spec == Init /\ [][Next]_vars

\* a call of GetCounters and a call of GetServiceTimes on the same client,
\* started in any order and running concurrently
NextConcurrent ==
    \/ \E f \in Fetches : Connect(f)
    \/ \E f \in Fetches : Get(f, MaxPairLines - Served)
    \/ Run

SpecConcurrent == InitOneClient /\ [][NextConcurrent]_vars

\* what a call does by itself once the response is accepted
Consume == \E f \in Fetches : StartProducer(f) \/ RangeNext(f) \/ Decode(f)

\* what a readLines goroutine does (a send needs the loop to receive)
Produce == \E g \in 1..Len(gos) : ReadLine(g) \/ Send(g) \/ CloseLines(g)

\* the Go scheduler runs every goroutine that can run; the body stream
\* grants every read
FairSpec == Spec /\ WF_vars(Consume) /\ WF_vars(Produce)

\* ------------------------------------------------------------------------
\* The decoders called directly, on every line of a bounded language
\* ------------------------------------------------------------------------

\* the characters a counters line is spelled with
CounterAlphabet == {"k", "1", ".", " ", "\t", "="}

\* the characters a service_times line is spelled with
ServiceAlphabet == {"k", "1", " ", "\t", ":", "%", "("}

\* a line may start with the fixed beginning of a metric, so that the free
\* text after it reaches the value's annotation
CounterHeads == { <<>>, <<"k", "=">> }

ServiceHeads == { <<>>, <<"k", ":">>, <<"k", ":", "1", "%">> }

\* the lines readLines can deliver: one terminator, at the end
LinesOver(heads, alphabet) ==
    { h \o t \o <<"\n">> : h \in heads, t \in SeqsUpTo(alphabet, MaxLineLen) }

CounterLines == LinesOver(CounterHeads, CounterAlphabet)

ServiceLines == LinesOver(ServiceHeads, ServiceAlphabet)

\* no call of the client has been made
Quiet == \A f \in Fetches : pc[f] = "idle"

CallDecodeCounter ==
    /\ dcall.fn = "none"
    /\ Quiet
    /\ \E l \in CounterLines :
        dcall' = [fn |-> "decodeCounterStrings", line |-> l, out |-> decodeCounterStrings(l)]
    /\ UNCHANGED fetchVars

CallDecodeServiceTime ==
    /\ dcall.fn = "none"
    /\ Quiet
    /\ \E l \in ServiceLines :
        dcall' = [fn |-> "decodeServiceTimeStrings", line |-> l,
                  out |-> decodeServiceTimeStrings(l)]
    /\ UNCHANGED fetchVars

\* the caller drops the result
DecodeReturn ==
    /\ dcall.fn # "none"
    /\ dcall' = NoCall
    /\ UNCHANGED fetchVars

InitDecode == InitOneClient

\* unit by unit: a decoder is called on a line and returns, or one fetch runs
NextDecode ==
    \/ CallDecodeCounter
    \/ CallDecodeServiceTime
    \/ DecodeReturn
    \/ (dcall = NoCall /\ Next)

SpecDecode == InitDecode /\ [][NextDecode]_vars

\* ------------------------------------------------------------------------
\* The vocabulary of the properties: text described by position, not by scan
\* ------------------------------------------------------------------------

Positions(s, c) == { i \in 1..Len(s) : s[i] = c }

Least(S) == CHOOSE x \in S : \A y \in S : x <= y

Greatest(S) == CHOOSE x \in S : \A y \in S : x >= y

Contains(s, c) == Positions(s, c) # {}

\* the text before / after the first c of a text that holds one
TextBefore(s, c) == SubSeq(s, 1, Least(Positions(s, c)) - 1)

TextAfter(s, c) == SubSeq(s, Least(Positions(s, c)) + 1, Len(s))

\* the text from its first to its last character that is not white space
Trimmed(s) ==
    LET ink == { i \in 1..Len(s) : ~IsSpace(s[i]) }
    IN  IF ink = {} THEN <<>> ELSE SubSeq(s, Least(ink), Greatest(ink))

\* the text before its first delimiter, all of it when it holds none
FirstToken(s, delimiters) ==
    LET at == { i \in 1..Len(s) : s[i] \in delimiters }
    IN  IF at = {} THEN s ELSE SubSeq(s, 1, Least(at) - 1)

\* every kind of white space, and the space character alone
AnyWhitespace == {" ", "\t", "\n", "\r"}

SpaceOnly == {" "}

\* a decimal numeral: digits, at most one point, at least one digit
Numeric(t) ==
    /\ \A i \in 1..Len(t) : IsDigit(t[i]) \/ t[i] = "."
    /\ Cardinality(Positions(t, ".")) <= 1
    /\ \E i \in 1..Len(t) : IsDigit(t[i])

RECURSIVE Pow10(_)
Pow10(n) == IF n = 0 THEN 1 ELSE 10 * Pow10(n - 1)

\* the number a numeral denotes, as the decimal mant * 10^(-exp) of least exp
NumberOf(t) ==
    LET IsDig(c) == IsDigit(c)
        ds == SelectSeq(t, IsDig)
        RECURSIVE Sum(_)
        Sum(i) == IF i > Len(ds) THEN 0
                  ELSE DigitVal[ds[i]] * Pow10(Len(ds) - i) + Sum(i + 1)
        m  == Sum(1)
        e  == IF Contains(t, ".") THEN Len(t) - Least(Positions(t, ".")) ELSE 0
        z  == Greatest({ k \in 0..e : m % Pow10(k) = 0 })
    IN  [mant |-> m \div Pow10(z), exp |-> e - z]

\* a decoder's answer: a record with no error, or an error with no record
Yields(out, key, payload) ==
    IF Numeric(payload)
    THEN out.err = Nil /\ out.rec = Counter(key, NumberOf(payload))
    ELSE out.err # Nil /\ out.rec = ZeroCounter

Fails(out) == out.err # Nil /\ out.rec = ZeroCounter

\* ------------------------------------------------------------------------
\* C6: the counter decoder
\* ------------------------------------------------------------------------

\* the rule of C6 on one line, the value's token ending at the first of
\* the given delimiters
CounterRule(out, line, delimiters) ==
    IF ~Contains(line, "=") THEN Fails(out)
    ELSE LET key   == Trimmed(TextBefore(line, "="))
             value == Trimmed(TextAfter(line, "="))
         IN  IF key = <<>> THEN Fails(out)
             ELSE Yields(out, key, FirstToken(value, delimiters))

\* C6 as stated: decodeCounterStrings fails on a line with no '=' or an
\* empty key, and otherwise returns {key, number} for the first token of the
\* trimmed value, the token ending at embedded white space of any kind
\* (error when the token is no number).
C6_AsStated ==
    dcall.fn = "decodeCounterStrings" => CounterRule(dcall.out, dcall.line, AnyWhitespace)

\* C6 amended: the same rule, but the value's token ends only at the first
\* space character; a tab inside the value stays in the token, which then
\* is no number, so the line fails.
C6_CounterDecoder ==
    dcall.fn = "decodeCounterStrings" => CounterRule(dcall.out, dcall.line, SpaceOnly)

\* C6 witness: a line whose trimmed value has a space in it was decoded
\* into a record from the token before that space
C6_Witness ==
    /\ dcall.fn = "decodeCounterStrings"
    /\ Contains(dcall.line, "=")
    /\ Contains(Trimmed(TextAfter(dcall.line, "=")), " ")
    /\ dcall.out.err = Nil
    /\ dcall.out.rec.Key = <<"k">>
    /\ dcall.out.rec.Value = [mant |-> 1, exp |-> 1]

\* ------------------------------------------------------------------------
\* C5: the service-time decoder
\* ------------------------------------------------------------------------

\* a line that ends with a colon and, right after it, the terminator
IsHeaderLine(line) ==
    /\ Len(line) >= 2
    /\ line[Len(line)] = "\n"
    /\ line[Len(line) - 1] = ":"

\* the label as a key: parentheses removed, each space an underscore
Relabel(s) ==
    LET NotParen(c) == c \notin {"(", ")"}
        kept == SelectSeq(s, NotParen)
    IN  [i \in 1..Len(kept) |-> IF kept[i] = " " THEN "_" ELSE kept[i]]

Label(line) == Relabel(Trimmed(TextBefore(line, ":")))

Qualifier(value) == Trimmed(TextBefore(value, "%"))

\* the rule of C5 as stated, on one line (a line with no ':' at all has no
\* label to speak of and is taken to fail)
ServiceTimeRuleAsStated(out, line) ==
    IF IsHeaderLine(line) THEN out.err = Nil /\ out.rec = ZeroCounter
    ELSE IF ~Contains(line, ":") THEN Fails(out)
    ELSE LET value == Trimmed(TextAfter(line, ":"))
         IN  IF Contains(value, "%")
             THEN Yields(out, Label(line) \o <<"_">> \o Qualifier(value),
                         FirstToken(Trimmed(TextAfter(value, "%")), AnyWhitespace))
             ELSE Yields(out, Label(line), FirstToken(value, AnyWhitespace))

\* the rule the code computes
ServiceTimeRule(out, line) ==
    IF IsHeaderLine(line) THEN out.err = Nil /\ out.rec = ZeroCounter
    ELSE IF ~Contains(line, ":") THEN Fails(out)
    ELSE IF Trimmed(TextBefore(line, ":")) = <<>> THEN Fails(out)
    ELSE LET value == Trimmed(TextAfter(line, ":"))
         IN  IF Contains(value, "%") /\ Qualifier(value) # <<>>
             THEN Yields(out, Label(line) \o <<"_">> \o Qualifier(value),
                         FirstToken(Trimmed(TextAfter(value, "%")), SpaceOnly))
             ELSE Yields(out, Label(line), value)

\* the lines the loop body of fetch f has been through
Decoded(f) ==
    IF pc[f] = "body" THEN SubSeq(delivered[f], 1, Len(delivered[f]) - 1) ELSE delivered[f]

\* what the loop body of fetch f has logged
DecodeLogs(f) ==
    LET FromDecoder(e) == e # ReadErrorLog
    IN  SelectSeq(logs[f], FromDecoder)

\* in GetServiceTimes every line that is no header has added a record or a
\* log entry, and the header lines have added neither
HeadersAreSilent ==
    LET f == "service_times"
        NotHeader(l) == ~IsHeaderLine(l)
    IN  /\ Len(records[f]) + Len(DecodeLogs(f)) = Len(SelectSeq(Decoded(f), NotHeader))
        /\ \A i \in 1..Len(DecodeLogs(f)) : \A j \in 1..Len(delivered[f]) :
              IsHeaderLine(delivered[f][j]) => DecodeLogs(f)[i] # ServiceTimeError(delivered[f][j])

\* the lines C5 as stated is read on: those with a label and, where the
\* value holds a '%', a qualifier before it
HasLabel(line) ==
    /\ Contains(line, ":")
    /\ Trimmed(TextBefore(line, ":")) # <<>>
    /\ LET value == Trimmed(TextAfter(line, ":"))
       IN  Contains(value, "%") => Qualifier(value) # <<>>

\* C5 as stated: decodeServiceTimeStrings maps a header line to no record
\* and no error, and any other line to {key, number} or an error by the
\* stated rule: key <label>_<qualifier> and payload the first
\* whitespace-delimited token after '%' when the value holds a '%', key
\* <label> and payload the first whitespace-delimited token of the value
\* when it holds none; and in GetServiceTimes a header line adds no record
\* and no log entry.  (Read here only on header lines and on lines with a
\* label and a qualifier, where the stated rule leaves no doubt.)
C5_AsStated ==
    /\ (dcall.fn = "decodeServiceTimeStrings" /\ (IsHeaderLine(dcall.line) \/ HasLabel(dcall.line)))
          => ServiceTimeRuleAsStated(dcall.out, dcall.line)
    /\ HeadersAreSilent

\* C5 amended: a header line yields no record and no error; a line with no
\* ':' or with an empty label fails; when the value holds a '%' with a
\* non-empty qualifier before it the key is <label>_<qualifier> and the
\* payload is the text after '%', trimmed, up to its first space character;
\* in every other case the key is <label> and the payload is the whole
\* trimmed value, annotation and '%' included; the line yields {key, number}
\* when the payload is a number and an error otherwise.  In GetServiceTimes
\* a header line adds no record and no log entry.
C5_ServiceTimeDecoder ==
    /\ dcall.fn = "decodeServiceTimeStrings" => ServiceTimeRule(dcall.out, dcall.line)
    /\ HeadersAreSilent

\* C5 witness: a percentile line with an annotation after its payload was
\* decoded into <label>_<qualifier> and the payload before the space
C5_Witness ==
    /\ dcall.fn = "decodeServiceTimeStrings"
    /\ dcall.line = <<"k", ":", "1", "%", " ", "1", " ", "k", "\n">>
    /\ dcall.out.err = Nil
    /\ dcall.out.rec = Counter(<<"k", "_", "1">>, [mant |-> 1, exp |-> 0])

\* ------------------------------------------------------------------------
\* The vocabulary of the properties about a fetch
\* ------------------------------------------------------------------------

IsPrefix(a, b) == Len(a) <= Len(b) /\ SubSeq(b, 1, Len(a)) = a

\* the peer's response to fetch f parsed and carried status 200
Accepted(f) == resp[f].framed /\ resp[f].status = 200

\* the call of f has returned records and no error
ReturnedOk(f) == result[f].returned /\ result[f].err = Nil

\* the call of f has returned an error
ReturnedError(f) == result[f].returned /\ result[f].err # Nil

\* the bytes written to the connection of fetch f
Wire(f) == IF conn[f] = 0 THEN <<>> ELSE conns[conn[f]]

\* the goroutines started for fetch f
Producers(f) == { g \in 1..Len(gos) : gos[g].reader = f }

\* a counters line that does not decode: no '=', an empty key, or a value
\* whose token is no number
MalformedCounter(l) ==
    \/ ~Contains(l, "=")
    \/ Trimmed(TextBefore(l, "=")) = <<>>
    \/ ~Numeric(FirstToken(Trimmed(TextAfter(l, "=")), SpaceOnly))

\* the record of a counters line that decodes
CounterOf(l) ==
    Counter(Trimmed(TextBefore(l, "=")),
            NumberOf(FirstToken(Trimmed(TextAfter(l, "=")), SpaceOnly)))

\* a service_times line that is no header and does not decode
MalformedServiceTime(l) ==
    /\ ~IsHeaderLine(l)
    /\ ServiceTimeRule([rec |-> ZeroCounter, err |-> ServiceTimeError(l)], l)

\* the record of the service_times line l, if rec is it
IsServiceTimeOf(rec, l) ==
    /\ ~IsHeaderLine(l)
    /\ ServiceTimeRule([rec |-> rec, err |-> Nil], l)

\* the records of the lines ls, in the order of the lines
RECURSIVE CountersOf(_)
CountersOf(ls) ==
    IF ls = <<>> THEN <<>>
    ELSE (IF MalformedCounter(Head(ls)) THEN <<>> ELSE <<CounterOf(Head(ls))>>)
         \o CountersOf(Tail(ls))

\* recs are the records of the service_times lines ls, in their order
RECURSIVE AreServiceTimesOf(_, _)
AreServiceTimesOf(recs, ls) ==
    IF ls = <<>> THEN recs = <<>>
    ELSE IF IsHeaderLine(Head(ls)) \/ MalformedServiceTime(Head(ls))
         THEN AreServiceTimesOf(recs, Tail(ls))
    ELSE /\ recs # <<>>
         /\ IsServiceTimeOf(Head(recs), Head(ls))
         /\ AreServiceTimesOf(Tail(recs), Tail(ls))

\* recs are the records a fetch of f decodes from the lines ls
AreRecordsOf(f, recs, ls) ==
    IF f = "counters" THEN recs = CountersOf(ls) ELSE AreServiceTimesOf(recs, ls)

\* the lines of ls a fetch of f skips with a log entry
Skipped(f, ls) ==
    LET Bad(l) == IF f = "counters" THEN MalformedCounter(l) ELSE MalformedServiceTime(l)
    IN  SelectSeq(ls, Bad)

\* ------------------------------------------------------------------------
\* C1: N lines, K malformed, N-K records in the order of the lines
\* ------------------------------------------------------------------------

\* C1: at every moment of an accepted counters fetch the records are those
\* of the well-formed lines decoded so far, in the order of the lines (so a
\* malformed line neither stops the decoding nor removes a record); and
\* when the fetch returns, every one of the N lines of the body has been
\* decoded and the records number N minus the K malformed lines.
C1_CountersInOrder ==
    LET f == "counters"
    IN  /\ records[f] = CountersOf(Decoded(f))
        /\ IsPrefix(Decoded(f), resp[f].lines)
        /\ ReturnedOk(f) =>
             /\ result[f].records = CountersOf(resp[f].lines)
             /\ Len(result[f].records) =
                  Len(resp[f].lines) - Len(SelectSeq(resp[f].lines, MalformedCounter))

\* C1 witness: a body of three lines, the second malformed, returned as the
\* two records of the first and the third line in that order
C1_Witness ==
    /\ ReturnedOk("counters")
    /\ Len(resp["counters"].lines) = 3
    /\ MalformedCounter(resp["counters"].lines[2])
    /\ result["counters"].records =
         <<Counter(<<"a">>, [mant |-> 1, exp |-> 0]), Counter(<<"b">>, [mant |-> 2, exp |-> 0])>>

\* ------------------------------------------------------------------------
\* C2: the two outcomes of a fetch
\* ------------------------------------------------------------------------

\* the status code as the error message spells it
CodeText == [c \in {200, 404} |-> IF c = 200 THEN "200" ELSE "404"]

\* the configured port as the header spells it
PortText == [p \in {3128, 8080} |-> IF p = 3128 THEN "3128" ELSE "8080"]

\* the version-1 PROXY header: TCP over IPv4, from 127.0.0.1:80 to
\* 127.0.0.1:<configured port>
StatedHeader ==
    <<"PROXY", "TCP4", "127.0.0.1", "127.0.0.1", "80", PortText[cfg.port], "\r\n">>

\* the header was asked for and has not been written completely
HeaderMissing(f) == cfg.withProxyProtocal /\ ~IsPrefix(StatedHeader, Wire(f))

\* C2: a call that has returned has returned either (a) records and no
\* error, and then the dial succeeded, the header (if asked for) was
\* written, the response parsed and carried status 200; or (b) no records
\* and an error, and then the dial failed, the header write failed, the
\* response did not parse or its status was not 200, the error naming the
\* status in the last case; and in (b) no channel was made, no goroutine
\* started and no line read, received or decoded.
C2_TwoOutcomes ==
    \A f \in Fetches :
        result[f].returned =>
            \/ /\ result[f].err = Nil
               /\ conn[f] # 0
               /\ ~HeaderMissing(f)
               /\ Accepted(f)
            \/ /\ result[f].err # Nil
               /\ result[f].records = <<>>
               /\ conn[f] = 0 \/ HeaderMissing(f) \/ ~Accepted(f)
               /\ (resp[f].framed /\ resp[f].status # 200) =>
                     \E i \in 1..Len(result[f].err) : result[f].err[i] = CodeText[resp[f].status]
               /\ lines[f] = 0
               /\ Producers(f) = {}
               /\ reader[f] = NoReader
               /\ delivered[f] = <<>> /\ records[f] = <<>> /\ logs[f] = <<>>

\* C2 witness: a fetch answered with status 404 has returned an error
C2_Witness ==
    \E f \in Fetches :
        /\ ReturnedError(f)
        /\ resp[f].framed
        /\ resp[f].status = 404

\* ------------------------------------------------------------------------
\* C3: a body stream that ends with a read error
\* ------------------------------------------------------------------------

\* C3 as stated: when the producer has produced some lines and then hits a
\* read error other than end-of-stream, what the fetch returns differs from
\* what it returns for a stream that ends normally after the same lines.
C3_AsStated ==
    \A f \in Fetches :
        (result[f].returned /\ Accepted(f) /\ resp[f].end = "ERR" /\ resp[f].lines # <<>>)
            => ~(result[f].err = Nil /\ AreRecordsOf(f, result[f].records, resp[f].lines))

\* ------------------------------------------------------------------------
\* C4: the order of the bytes on the connection
\* ------------------------------------------------------------------------

\* the request line of fetch f
RequestLine(f) == "GET cache_object://localhost/" \o f \o " HTTP/1.0"

\* where the request line stands on the wire of fetch f
RequestAt(f) == Positions(Wire(f), RequestLine(f))

\* the call of f ended on a failed write of the header
HeaderWriteFailed(f) == result[f].returned /\ result[f].err = WrapError(f, WriteError)

\* C4: with the proxy-header option on, what is on the wire is a prefix of
\* the stated header or the whole header followed by the request, whose
\* first byte thus comes right after the header's last; after a failed
\* header write the wire holds less than the header and no request.  With
\* the option off the wire is empty or starts with the request line, and
\* holds no header.
C4_HeaderBeforeRequest ==
    \A f \in Fetches :
        IF cfg.withProxyProtocal
        THEN /\ \/ IsPrefix(Wire(f), StatedHeader)
                \/ /\ IsPrefix(StatedHeader, Wire(f))
                   /\ RequestAt(f) = {Len(StatedHeader) + 1}
             /\ HeaderWriteFailed(f) =>
                  /\ Len(Wire(f)) < Len(StatedHeader)
                  /\ RequestAt(f) = {}
             /\ pc[f] \in {"start", "range", "body"} \/ Accepted(f) => RequestAt(f) # {}
        ELSE /\ Wire(f) = <<>> \/ RequestAt(f) = {1}
             /\ ~Contains(Wire(f), "PROXY")
             /\ ~HeaderWriteFailed(f)

\* C4 witness: with the option on, a fetch has written the whole header and
\* then the request, and was answered
C4_Witness ==
    \E f \in Fetches :
        /\ cfg.withProxyProtocal
        /\ cfg.port = 8080
        /\ Accepted(f)
        /\ SubSeq(Wire(f), 1, 7) = <<"PROXY", "TCP4", "127.0.0.1", "127.0.0.1", "80", "8080", "\r\n">>
        /\ Wire(f)[8] = RequestLine(f)

\* ------------------------------------------------------------------------
\* C7: one line of backpressure
\* ------------------------------------------------------------------------

\* the lines goroutine g has read from the body that its fetch's loop has
\* not yet received
InFlight(g) == gos[g].nread - Len(delivered[gos[g].reader])

\* C7: at most one line has been read from the body and not yet taken by
\* the decode loop, and the producer stands before its next read only when
\* every line it has read has been taken.
C7_OneLineInFlight ==
    \A g \in 1..Len(gos) :
        /\ InFlight(g) \in {0, 1}
        /\ gos[g].pc = "read" => InFlight(g) = 0

\* C7 witness: the producer holds its second line, blocked on the send,
\* while the loop is still in the body for the first
C7_Witness ==
    \E g \in 1..Len(gos) :
        /\ gos[g].pc = "send"
        /\ gos[g].nread = 2
        /\ pc[gos[g].reader] = "body"
        /\ InFlight(g) = 1

\* ------------------------------------------------------------------------
\* C10: the lines handed over are the terminator-ended lines of the body
\* ------------------------------------------------------------------------

\* C10: the lines the loop has received are, in order, the first of the
\* terminator-ended lines of the body, each ending with the terminator;
\* when the fetch returns they are all of them; and the records and the
\* skipped-line log entries are those of these lines alone, so whatever
\* follows the last terminator is not delivered, decoded or logged.
C10_OnlyTerminatedLines ==
    \A f \in Fetches :
        /\ IsPrefix(delivered[f], resp[f].lines)
        /\ \A i \in 1..Len(delivered[f]) : delivered[f][i][Len(delivered[f][i])] = "\n"
        /\ ReturnedOk(f) => delivered[f] = resp[f].lines
        /\ AreRecordsOf(f, records[f], Decoded(f))
        /\ Len(DecodeLogs(f)) = Len(Skipped(f, Decoded(f)))
        /\ \A i \in 1..Len(DecodeLogs(f)) : resp[f].tail = <<>> \/
              ~HasSuffix(DecodeLogs(f)[i], resp[f].tail)

\* C10 witness: a body whose last line, a valid counter, has no terminator
\* was fetched to the end, and that counter is not among the records
C10_Witness ==
    /\ ReturnedOk("counters")
    /\ resp["counters"].tail = <<"c", "=", "3">>
    /\ Len(resp["counters"].lines) = 2
    /\ Len(result["counters"].records) = 2
    /\ \A i \in 1..Len(result["counters"].records) :
          result["counters"].records[i].Key # <<"c">>

\* ------------------------------------------------------------------------
\* C8: concurrent fetches are independent
\* ------------------------------------------------------------------------

\* no two fetches share a connection, a channel or a goroutine, the wire
\* of a fetch carries its own request alone, and what a fetch has returned
\* is what its own response determines
Independent ==
    \A f \in Fetches :
        /\ \A h \in Fetches \ {f} :
            /\ conn[f] # 0 => conn[f] # conn[h]
            /\ lines[f] # 0 => lines[f] # lines[h]
            /\ Positions(Wire(f), RequestLine(h)) = {}
        /\ Cardinality(Producers(f)) <= 1
        /\ \A g \in Producers(f) : gos[g].lines = lines[f]
        /\ Cardinality(RequestAt(f)) <= 1
        /\ AreRecordsOf(f, records[f], Decoded(f))
        /\ IsPrefix(delivered[f], resp[f].lines)
        /\ result[f].returned =>
             IF Accepted(f)
             THEN result[f].err = Nil /\ AreRecordsOf(f, result[f].records, resp[f].lines)
             ELSE result[f].err # Nil /\ result[f].records = <<>>

\* C8: in every interleaving of a counters fetch and a service-times fetch
\* on the same client, each uses its own connection, channel and producer
\* and returns the records and error its own response determines, and no
\* step writes the client configuration.
C8_FetchesIndependent == []Independent /\ [][cfg' = cfg]_vars

\* C8 witness: both fetches are in their loop bodies at once, each decoding
\* a line of its own body
C8_Witness ==
    /\ pc["counters"] = "body"
    /\ pc["service_times"] = "body"
    /\ cur["counters"] \in Segments("counters")
    /\ cur["service_times"] \in Segments("service_times")

\* ------------------------------------------------------------------------
\* C9: an accepted fetch terminates, with its producer
\* ------------------------------------------------------------------------

\* one producer per accepted fetch, one close, no send after it, and a
\* return only once the channel is closed and drained and the producer gone
ProducerDiscipline ==
    \A f \in Fetches :
        /\ Cardinality(Producers(f)) =
             IF pc[f] \in {"range", "body"} \/ ReturnedOk(f) THEN 1 ELSE 0
        /\ lines[f] # 0 =>
             /\ chans[lines[f]].closes <= 1
             /\ chans[lines[f]].lateSends = 0
             /\ \A g \in Producers(f) :
                  gos[g].pc \in {"read", "send"} => ~chans[lines[f]].closed
        /\ ReturnedOk(f) =>
             /\ chans[lines[f]].closed
             /\ chans[lines[f]].closes = 1
             /\ chans[lines[f]].buf = <<>>
             /\ chans[lines[f]].sends = Len(delivered[f])
             /\ Decoded(f) = delivered[f]
             /\ \A g \in Producers(f) : gos[g].pc = "done" /\ gos[g].nread = Len(delivered[f])

\* C9: under fair scheduling every accepted fetch returns; and always, a
\* fetch has exactly one producer, which closes the channel once and sends
\* nothing after, and the fetch returns only after the close, with every
\* line sent consumed and no producer left at a send.
C9_FetchTerminates ==
    /\ []ProducerDiscipline
    /\ \A f \in Fetches : (pc[f] = "start") ~> ReturnedOk(f)

\* C9 witness: a fetch whose body ended with a read error after two lines
\* has returned, its channel closed once and its producer finished
C9_Witness ==
    \E f \in Fetches :
        /\ ReturnedOk(f)
        /\ resp[f].end = "ERR"
        /\ Len(delivered[f]) = 2
        /\ chans[lines[f]].closes = 1
        /\ \A g \in Producers(f) : gos[g].pc = "done"

====
